---- MODULE Spec2Model ----
(***************************************************************************)
(* Stock ledger, concurrency tracker and snapshot handlers of the          *)
(* load-test mock servers:                                                 *)
(*   enhanced_mock_server.py  ("enhanced")                                 *)
(*   mock_server.py           ("basic")                                    *)
(* Every request is one handler invocation (do_POST / do_GET) running in   *)
(* its own thread; handlers interleave at the statements that touch the    *)
(* module globals.  Statements whose intermediate state no other handler   *)
(* can read (pure locals, or globals every access to which is under        *)
(* stock_lock) are folded into the step that precedes them; every          *)
(* unlocked read of a global is a step of its own.  A GET handler has no   *)
(* cleanup and writes no global, so a failed socket write in it is not     *)
(* modelled.                                                               *)
(* The scheduling is thread-per-request, the one stock_lock is written     *)
(* for.  The __main__ blocks construct http.server.HTTPServer, whose       *)
(* serve_forever runs the same handlers one after the other: a subset of   *)
(* the behaviours below.                                                   *)
(***************************************************************************)
EXTENDS Integers, Sequences, FiniteSets, TLC

\* ------------------------------------------------------------------ bounds
\* number of requests (handler invocations) of one run
NumReqs == 2
\* the initial stock ranges over 1..MaxStock (500 resp. 100 in the sources)
MaxStock == 2
\* progress line every ProgressEvery-th success (the literal 100, scaled)
ProgressEvery == 2

\* ------------------------------------------------------- program constants
\* f"ORDER-{order_count:05d}": minimum width of the zero-padded number
IdWidth == 5

\* response_time of a request, in milliseconds; no handler branches on the
\* value of a sample
Samples == {1}

Reqs == 1..NumReqs
Servers == {"enhanced", "basic"}

\* ------------------------------------------------------------------ state
VARIABLES
  server,              \* which of the two programs runs
  INITIAL_STOCK,       \* INITIAL_STOCK (enhanced) / the literal 100 (basic)
  available_stock,
  stock_lock,          \* 0 = free, else the request holding it
  order_count,
  successful_orders,
  failed_orders,
  concurrent_requests,
  max_concurrent,
  response_times,      \* list of samples
  order_timestamps,    \* list, one entry per appended timestamp
  console,             \* progress lines written to stdout
  arrived,             \* number of requests whose handler has started
  pc,                  \* per request: position in its handler
  method,              \* per request: "POST" / "GET" / "-"
  path,                \* per request: self.path
  order_id,            \* per request: local order_id
  status_code,         \* per request: local status_code (0 = unset)
  response,            \* per request: local response / metrics dict
  sent,                \* per request: what went out on the socket
  raised,              \* per request: the handler ended by an exception
  rd                   \* per request: values a GET handler has read so far

ledger == <<available_stock, order_count, successful_orders, failed_orders>>
tracker == <<concurrent_requests, max_concurrent>>
metricsv == <<response_times, order_timestamps, console>>
locals == <<order_id, status_code, response, rd>>
vars == <<server, INITIAL_STOCK, available_stock, stock_lock, order_count,
          successful_orders, failed_orders, concurrent_requests,
          max_concurrent, response_times, order_timestamps, console, arrived,
          pc, method, path, order_id, status_code, response, sent, raised, rd>>

\* ---------------------------------------------------------------- helpers
RECURSIVE Digits(_)
Digits(n) == IF n < 10 THEN <<n>> ELSE Append(Digits(n \div 10), n % 10)

RECURSIVE ZeroPad(_, _)
ZeroPad(s, w) == IF Len(s) >= w THEN s ELSE ZeroPad(<<0>> \o s, w)

\* f"ORDER-{n:05d}"
FormatOrderIdBeforeIncrement(n) ==
  [prefix |-> "ORDER-", digits |-> ZeroPad(Digits(n - 1), IdWidth)]
FormatOrderId(n) == [prefix |-> "ORDER-", digits |-> ZeroPad(Digits(n), IdWidth)]

\* the number the first i digits of s render
RECURSIVE DigitsValue(_, _)
DigitsValue(s, i) == IF i = 0 THEN 0 ELSE 10 * DigitsValue(s, i - 1) + s[i]

\* the number an order id carries
OrderNumber(id) == DigitsValue(id.digits, Len(id.digits))

NoId == [prefix |-> "", digits |-> <<>>]
NoBody == [none |-> TRUE]
NoResponse == [code |-> 0, body |-> NoBody]
NoReads == [n |-> 0]

\* GET requests started so far.  A run has one snapshot reader: the GET
\* handlers write no global, so readers influence neither each other nor the
\* order handlers.
Gets == {r \in Reqs : method[r] = "GET"}

Min(a, b) == IF a < b THEN a ELSE b

\* order handlers that have started and not yet returned
OrdersInProgress ==
  {r \in Reqs : /\ method[r] = "POST" /\ path[r] = "/api/v1/orders"
                /\ pc[r] \notin {"new", "done"}}

\* ------------------------------------------------------------------- init
Init ==
  /\ server \in Servers
  /\ INITIAL_STOCK \in 1..MaxStock
  /\ available_stock = INITIAL_STOCK
  /\ stock_lock = 0
  /\ order_count = 0
  /\ successful_orders = 0
  /\ failed_orders = 0
  /\ concurrent_requests = 0
  /\ max_concurrent = 0
  /\ response_times = <<>>
  /\ order_timestamps = <<>>
  /\ console = <<>>
  /\ arrived = 0
  /\ pc = [r \in Reqs |-> "new"]
  /\ method = [r \in Reqs |-> "-"]
  /\ path = [r \in Reqs |-> "-"]
  /\ order_id = [r \in Reqs |-> NoId]
  /\ status_code = [r \in Reqs |-> 0]
  /\ response = [r \in Reqs |-> NoBody]
  /\ sent = [r \in Reqs |-> NoResponse]
  /\ raised = [r \in Reqs |-> FALSE]
  /\ rd = [r \in Reqs |-> NoReads]

\* ------------------------------------------- enhanced_mock_server.do_POST
\* lines 37-38: if concurrent_requests > max_concurrent: max_concurrent = ...
NewMaxWrongCompare(c) == IF c < max_concurrent THEN c ELSE max_concurrent
NewMax(c) == IF c > max_concurrent THEN c ELSE max_concurrent

\* lines 40, 91: an exception inside the try block runs the finally clause
UnwindSkipsFinally == "done"
Unwind == "finally"

\* lines 28-38: the handler starts and `with stock_lock` tracks the request;
\* lines 41, 88-90: an unknown path is answered 404 (the socket write may
\* raise) and the handler goes to its finally clause
EnterFallsThrough(r) ==
  /\ server = "enhanced"
  /\ pc[r] = "new"
  /\ r = arrived + 1
  /\ stock_lock = 0
  /\ arrived' = arrived + 1
  /\ method' = [method EXCEPT ![r] = "POST"]
  /\ concurrent_requests' = concurrent_requests + 1
  /\ max_concurrent' = NewMax(concurrent_requests')
  /\ \/ /\ path' = [path EXCEPT ![r] = "/api/v1/orders"]
        /\ pc' = [pc EXCEPT ![r] = "acquire"]
        /\ UNCHANGED <<sent, raised>>
     \/ /\ path' = [path EXCEPT ![r] = "/other"]
        /\ \/ /\ sent' = [sent EXCEPT ![r] = [code |-> 404, body |-> NoBody]]
              /\ pc' = [pc EXCEPT ![r] = "record"]
              /\ UNCHANGED raised
           \/ /\ raised' = [raised EXCEPT ![r] = TRUE]
              /\ pc' = [pc EXCEPT ![r] = Unwind]
              /\ UNCHANGED sent
  /\ UNCHANGED <<server, INITIAL_STOCK, ledger, stock_lock, metricsv, locals>>

Enter(r) ==
  /\ server = "enhanced"
  /\ pc[r] = "new"
  /\ r = arrived + 1
  /\ stock_lock = 0
  /\ arrived' = arrived + 1
  /\ method' = [method EXCEPT ![r] = "POST"]
  /\ concurrent_requests' = concurrent_requests + 1
  /\ max_concurrent' = NewMax(concurrent_requests')
  /\ \/ /\ path' = [path EXCEPT ![r] = "/api/v1/orders"]
        /\ pc' = [pc EXCEPT ![r] = "acquire"]
        /\ UNCHANGED <<sent, raised>>
     \/ /\ path' = [path EXCEPT ![r] = "/other"]
        /\ \/ /\ sent' = [sent EXCEPT ![r] = [code |-> 404, body |-> NoBody]]
              /\ pc' = [pc EXCEPT ![r] = "finally"]
              /\ UNCHANGED raised
           \/ /\ raised' = [raised EXCEPT ![r] = TRUE]
              /\ pc' = [pc EXCEPT ![r] = Unwind]
              /\ UNCHANGED sent
  /\ UNCHANGED <<server, INITIAL_STOCK, ledger, stock_lock, metricsv, locals>>

\* line 50: if available_stock > 0
HasStockAlways == TRUE
HasStockOffByOne == available_stock >= 0
HasStock == available_stock > 0

\* lines 43-50: sleep, take stock_lock, count the order, format its id,
\* test the stock
AcquireNoWait(r) ==
  /\ server = "enhanced"
  /\ pc[r] = "acquire"
  /\ stock_lock' = r
  /\ order_count' = order_count + 1
  /\ order_id' = [order_id EXCEPT ![r] = FormatOrderId(order_count')]
  /\ pc' = [pc EXCEPT ![r] = IF HasStock THEN "decrement" ELSE "reject"]
  /\ UNCHANGED <<server, INITIAL_STOCK, available_stock, successful_orders,
                 failed_orders, tracker, metricsv, arrived, method, path,
                 status_code, response, sent, raised, rd>>

Acquire(r) ==
  /\ server = "enhanced"
  /\ pc[r] = "acquire"
  /\ stock_lock = 0
  /\ stock_lock' = r
  /\ order_count' = order_count + 1
  /\ order_id' = [order_id EXCEPT ![r] = FormatOrderId(order_count')]
  /\ pc' = [pc EXCEPT ![r] = IF HasStock THEN "decrement" ELSE "reject"]
  /\ UNCHANGED <<server, INITIAL_STOCK, available_stock, successful_orders,
                 failed_orders, tracker, metricsv, arrived, method, path,
                 status_code, response, sent, raised, rd>>

\* line 51: available_stock -= 1
Decrement(r) ==
  /\ server = "enhanced"
  /\ pc[r] = "decrement"
  /\ available_stock' = available_stock - 1
  /\ pc' = [pc EXCEPT ![r] = "confirm"]
  /\ UNCHANGED <<server, INITIAL_STOCK, order_count, successful_orders,
                 failed_orders, tracker, stock_lock, metricsv, arrived, method,
                 path, locals, sent, raised>>

\* lines 64-71: the progress line of a success that is a multiple of the interval
ProgressDueOffByOne(n) == n % ProgressEvery = 1
ProgressDue(n) == n % ProgressEvery = 0

\* lines 55-60: the body of the 201 response
ConfirmedBodyStale(id) ==
  [orderId |-> id, status |-> "CONFIRMED",
   message |-> "Order created successfully",
   remainingStock |-> available_stock + 1]
ConfirmedBody(id) ==
  [orderId |-> id, status |-> "CONFIRMED",
   message |-> "Order created successfully",
   remainingStock |-> available_stock]

\* lines 74-78: the body of the 409 response
RejectedBody(id) ==
  [error |-> "INSUFFICIENT_STOCK",
   message |-> "Insufficient stock for the requested items",
   orderId |-> id]

\* lines 52-71 and the end of the with block: count the success, keep its
\* timestamp, build the 201 response, print the progress line (print may
\* raise: the with block releases the lock and the finally clause runs)
Confirm(r) ==
  /\ server = "enhanced"
  /\ pc[r] = "confirm"
  /\ successful_orders' = successful_orders + 1
  /\ order_timestamps' = Append(order_timestamps, order_count)
  /\ response' = [response EXCEPT ![r] = ConfirmedBody(order_id[r])]
  /\ status_code' = [status_code EXCEPT ![r] = 201]
  /\ \/ /\ ProgressDue(successful_orders')
        /\ console' = Append(console,
                         [orders |-> order_count, success |-> successful_orders',
                          failed |-> failed_orders, stock |-> available_stock,
                          concurrent |-> concurrent_requests])
        /\ pc' = [pc EXCEPT ![r] = "record"]
        /\ UNCHANGED raised
     \/ /\ ProgressDue(successful_orders')
        /\ raised' = [raised EXCEPT ![r] = TRUE]
        /\ pc' = [pc EXCEPT ![r] = Unwind]
        /\ UNCHANGED console
     \/ /\ ~ProgressDue(successful_orders')
        /\ pc' = [pc EXCEPT ![r] = "record"]
        /\ UNCHANGED <<console, raised>>
  /\ stock_lock' = 0
  /\ UNCHANGED <<server, INITIAL_STOCK, available_stock, order_count,
                 failed_orders, tracker, response_times, arrived, method, path,
                 order_id, sent, rd>>

\* lines 72-79 and the end of the with block
RejectKeepsLock(r) ==
  /\ server = "enhanced"
  /\ pc[r] = "reject"
  /\ failed_orders' = failed_orders + 1
  /\ response' = [response EXCEPT ![r] = RejectedBody(order_id[r])]
  /\ status_code' = [status_code EXCEPT ![r] = 409]
  /\ pc' = [pc EXCEPT ![r] = "record"]
  /\ UNCHANGED stock_lock
  /\ UNCHANGED <<server, INITIAL_STOCK, available_stock, order_count,
                 successful_orders, tracker, metricsv, arrived, method, path,
                 order_id, sent, raised, rd>>

RejectNoCount(r) ==
  /\ server = "enhanced"
  /\ pc[r] = "reject"
  /\ failed_orders' = failed_orders
  /\ response' = [response EXCEPT ![r] = RejectedBody(order_id[r])]
  /\ status_code' = [status_code EXCEPT ![r] = 409]
  /\ stock_lock' = 0
  /\ pc' = [pc EXCEPT ![r] = "record"]
  /\ UNCHANGED <<server, INITIAL_STOCK, available_stock, order_count,
                 successful_orders, tracker, metricsv, arrived, method, path,
                 order_id, sent, raised, rd>>

Reject(r) ==
  /\ server = "enhanced"
  /\ pc[r] = "reject"
  /\ failed_orders' = failed_orders + 1
  /\ response' = [response EXCEPT ![r] = RejectedBody(order_id[r])]
  /\ status_code' = [status_code EXCEPT ![r] = 409]
  /\ stock_lock' = 0
  /\ pc' = [pc EXCEPT ![r] = "record"]
  /\ UNCHANGED <<server, INITIAL_STOCK, available_stock, order_count,
                 successful_orders, tracker, metricsv, arrived, method, path,
                 order_id, sent, raised, rd>>

\* lines 81-87: response_times.append(response_time), then the status line,
\* header and JSON body; the socket write may raise
Record(r) ==
  /\ server = "enhanced"
  /\ pc[r] = "record"
  /\ \E ms \in Samples : response_times' = Append(response_times, ms)
  /\ \/ /\ sent' = [sent EXCEPT ![r] =
                      [code |-> status_code[r], body |-> response[r]]]
        /\ pc' = [pc EXCEPT ![r] = "finally"]
        /\ UNCHANGED raised
     \/ /\ raised' = [raised EXCEPT ![r] = TRUE]
        /\ pc' = [pc EXCEPT ![r] = Unwind]
        /\ UNCHANGED sent
  /\ UNCHANGED <<server, INITIAL_STOCK, ledger, tracker, stock_lock,
                 order_timestamps, console, arrived, method, path, locals>>

\* lines 91-93: finally: with stock_lock: concurrent_requests -= 1
Finally(r) ==
  /\ server = "enhanced"
  /\ pc[r] = "finally"
  /\ stock_lock = 0
  /\ concurrent_requests' = concurrent_requests - 1
  /\ pc' = [pc EXCEPT ![r] = "done"]
  /\ UNCHANGED <<server, INITIAL_STOCK, ledger, max_concurrent, stock_lock,
                 metricsv, arrived, method, path, locals, sent, raised>>

\* -------------------------------------------- enhanced_mock_server.do_GET
RECURSIVE SeqSum(_)
SeqSum(s) == IF Len(s) = 0 THEN 0 ELSE s[1] + SeqSum(Tail(s))

SeqMin(s) == CHOOSE x \in {s[i] : i \in 1..Len(s)} :
               \A y \in {s[i] : i \in 1..Len(s)} : x <= y
SeqMax(s) == CHOOSE x \in {s[i] : i \in 1..Len(s)} :
               \A y \in {s[i] : i \in 1..Len(s)} : x >= y

\* a quotient a / b kept exact, as numerator and denominator; 0 is 0 / 1
Quot(a, b) == [num |-> a, den |-> b]
Zero == Quot(0, 1)
QuotEq(x, y) == x.num * y.den = y.num * x.den

\* (successful_orders / order_count * 100) of line 108, from the values read
SuccessRateNoPercent(s, n) == Quot(s, n)
SuccessRate(s, n) == Quot(s * 100, n)

\* the locals of the metrics handler; `quiet` is history, not a local: no
\* order handler was running when this handler started
MetricsReads0 ==
  [tmp |-> 0, avg |-> Zero, availableStock |-> 0, totalOrders |-> 0,
   successfulOrders |-> 0, failedOrders |-> 0, successRate |-> Zero,
   maxConcurrentRequests |-> 0, min |-> 0, max |-> 0, count |-> 0,
   quiet |-> OrdersInProgress = {}]

\* line 99, the condition: `... if response_times else 0`
MetricsStart(r) ==
  /\ server = "enhanced"
  /\ pc[r] = "new"
  /\ r = arrived + 1
  /\ Gets = {}
  /\ arrived' = arrived + 1
  /\ method' = [method EXCEPT ![r] = "GET"]
  /\ path' = [path EXCEPT ![r] = "/metrics"]
  /\ rd' = [rd EXCEPT ![r] = MetricsReads0]
  /\ pc' = [pc EXCEPT ![r] = IF Len(response_times) > 0 THEN "m99sum" ELSE "m104"]
  /\ UNCHANGED <<server, INITIAL_STOCK, ledger, tracker, stock_lock, metricsv,
                 order_id, status_code, response, sent, raised>>

\* lines 99-117, one read of a global per step, none under stock_lock:
\* the handler's position after the step at `at`
MetricsGotoNoEmptyCheck(at) ==
  CASE at = "m99sum" -> "m99len"
    [] at = "m99len" -> "m104"
    [] at = "m104" -> "m105"
    [] at = "m105" -> "m106"
    [] at = "m106" -> "m107"
    [] at = "m107" -> "m108if"
    [] at = "m108if" -> IF order_count > 0 THEN "m108s" ELSE "m111"
    [] at = "m108s" -> "m108n"
    [] at = "m108n" -> "m111"
    [] at = "m111" -> "m115if"
    [] at = "m115if" -> "m115"
    [] at = "m115" -> "m116if"
    [] at = "m116if" -> IF Len(response_times) > 0 THEN "m116" ELSE "m117"
    [] at = "m116" -> "m117"
    [] at = "m117" -> "msend"

MetricsGoto(at) ==
  CASE at = "m99sum" -> "m99len"
    [] at = "m99len" -> "m104"
    [] at = "m104" -> "m105"
    [] at = "m105" -> "m106"
    [] at = "m106" -> "m107"
    [] at = "m107" -> "m108if"
    [] at = "m108if" -> IF order_count > 0 THEN "m108s" ELSE "m111"
    [] at = "m108s" -> "m108n"
    [] at = "m108n" -> "m111"
    [] at = "m111" -> "m115if"
    [] at = "m115if" -> IF Len(response_times) > 0 THEN "m115" ELSE "m116if"
    [] at = "m115" -> "m116if"
    [] at = "m116if" -> IF Len(response_times) > 0 THEN "m116" ELSE "m117"
    [] at = "m116" -> "m117"
    [] at = "m117" -> "msend"

\* the handler's locals after the step at `at`
MetricsReadInitialStock(at, d) ==
  CASE at = "m99sum" -> [d EXCEPT !.tmp = SeqSum(response_times)]
    [] at = "m99len" -> [d EXCEPT !.avg = Quot(d.tmp, Len(response_times)),
                                   !.tmp = 0]
    [] at = "m104" -> [d EXCEPT !.availableStock = INITIAL_STOCK]
    [] at = "m105" -> [d EXCEPT !.totalOrders = order_count]
    [] at = "m106" -> [d EXCEPT !.successfulOrders = successful_orders]
    [] at = "m107" -> [d EXCEPT !.failedOrders = failed_orders]
    [] at = "m108if" -> [d EXCEPT !.successRate = Zero]
    [] at = "m108s" -> [d EXCEPT !.tmp = successful_orders]
    [] at = "m108n" -> [d EXCEPT !.successRate = SuccessRate(d.tmp, order_count),
                                  !.tmp = 0]
    [] at = "m111" -> [d EXCEPT !.maxConcurrentRequests = max_concurrent]
    [] at = "m115if" -> [d EXCEPT !.min = 0]
    [] at = "m115" -> [d EXCEPT !.min = SeqMin(response_times)]
    [] at = "m116if" -> [d EXCEPT !.max = 0]
    [] at = "m116" -> [d EXCEPT !.max = SeqMax(response_times)]
    [] at = "m117" -> [d EXCEPT !.count = Len(response_times)]

MetricsRead(at, d) ==
  CASE at = "m99sum" -> [d EXCEPT !.tmp = SeqSum(response_times)]
    [] at = "m99len" -> [d EXCEPT !.avg = Quot(d.tmp, Len(response_times)),
                                   !.tmp = 0]
    [] at = "m104" -> [d EXCEPT !.availableStock = available_stock]
    [] at = "m105" -> [d EXCEPT !.totalOrders = order_count]
    [] at = "m106" -> [d EXCEPT !.successfulOrders = successful_orders]
    [] at = "m107" -> [d EXCEPT !.failedOrders = failed_orders]
    [] at = "m108if" -> [d EXCEPT !.successRate = Zero]
    [] at = "m108s" -> [d EXCEPT !.tmp = successful_orders]
    [] at = "m108n" -> [d EXCEPT !.successRate = SuccessRate(d.tmp, order_count),
                                  !.tmp = 0]
    [] at = "m111" -> [d EXCEPT !.maxConcurrentRequests = max_concurrent]
    [] at = "m115if" -> [d EXCEPT !.min = 0]
    [] at = "m115" -> [d EXCEPT !.min = SeqMin(response_times)]
    [] at = "m116if" -> [d EXCEPT !.max = 0]
    [] at = "m116" -> [d EXCEPT !.max = SeqMax(response_times)]
    [] at = "m117" -> [d EXCEPT !.count = Len(response_times)]

MetricsSteps == {"m99sum", "m99len", "m104", "m105", "m106", "m107", "m108if",
                 "m108s", "m108n", "m111", "m115if", "m115", "m116if", "m116",
                 "m117"}

MetricsStep(r) ==
  /\ server = "enhanced"
  /\ method[r] = "GET"
  /\ pc[r] \in MetricsSteps
  /\ rd' = [rd EXCEPT ![r] = MetricsRead(pc[r], rd[r])]
  /\ pc' = [pc EXCEPT ![r] = MetricsGoto(pc[r])]
  /\ UNCHANGED <<server, INITIAL_STOCK, ledger, tracker, stock_lock, metricsv,
                 arrived, method, path, order_id, status_code, response, sent,
                 raised>>

\* lines 101-119: the metrics dict (totalTime and avgTPS are wall-clock
\* figures and are left out)
MetricsBodyFailedAsTotal(d) ==
  [summary |->
     [initialStock |-> INITIAL_STOCK, availableStock |-> d.availableStock,
      totalOrders |-> d.totalOrders, successfulOrders |-> d.successfulOrders,
      failedOrders |-> d.totalOrders, successRate |-> d.successRate,
      maxConcurrentRequests |-> d.maxConcurrentRequests],
   responseTime |->
     [avg |-> d.avg, min |-> d.min, max |-> d.max, count |-> d.count]]

MetricsBody(d) ==
  [summary |->
     [initialStock |-> INITIAL_STOCK, availableStock |-> d.availableStock,
      totalOrders |-> d.totalOrders, successfulOrders |-> d.successfulOrders,
      failedOrders |-> d.failedOrders, successRate |-> d.successRate,
      maxConcurrentRequests |-> d.maxConcurrentRequests],
   responseTime |->
     [avg |-> d.avg, min |-> d.min, max |-> d.max, count |-> d.count]]

\* lines 121-124
MetricsSend(r) ==
  /\ server = "enhanced"
  /\ pc[r] = "msend"
  /\ response' = [response EXCEPT ![r] = MetricsBody(rd[r])]
  /\ sent' = [sent EXCEPT ![r] = [code |-> 200, body |-> response'[r]]]
  /\ UNCHANGED raised
  /\ pc' = [pc EXCEPT ![r] = "done"]
  /\ UNCHANGED <<server, INITIAL_STOCK, ledger, tracker, stock_lock, metricsv,
                 arrived, method, path, order_id, status_code, rd>>

\* the locals of the inventory handler; `quiet` is history, as above
InventoryReads0 ==
  [availableStock |-> 0, reservedStock |-> 0, totalOrders |-> 0,
   successfulOrders |-> 0, failedOrders |-> 0,
   quiet |-> OrdersInProgress = {}]

\* line 130: "availableStock": available_stock
InventoryStart(r) ==
  /\ server = "enhanced"
  /\ pc[r] = "new"
  /\ r = arrived + 1
  /\ Gets = {}
  /\ arrived' = arrived + 1
  /\ method' = [method EXCEPT ![r] = "GET"]
  /\ path' = [path EXCEPT ![r] = "/api/v1/inventory/products/x"]
  /\ rd' = [rd EXCEPT ![r] =
              [InventoryReads0 EXCEPT !.availableStock = available_stock]]
  /\ pc' = [pc EXCEPT ![r] = "i131"]
  /\ UNCHANGED <<server, INITIAL_STOCK, ledger, tracker, stock_lock, metricsv,
                 order_id, status_code, response, sent, raised>>

InventoryGoto(at) ==
  CASE at = "i131" -> "i132"
    [] at = "i132" -> "i133"
    [] at = "i133" -> "i134"
    [] at = "i134" -> "isend"

\* lines 131-134, one unlocked read of a global per step
InventoryReadFromSuccesses(at, d) ==
  CASE at = "i131" -> [d EXCEPT !.reservedStock = successful_orders]
    [] at = "i132" -> [d EXCEPT !.totalOrders = order_count]
    [] at = "i133" -> [d EXCEPT !.successfulOrders = successful_orders]
    [] at = "i134" -> [d EXCEPT !.failedOrders = failed_orders]
InventoryRead(at, d) ==
  CASE at = "i131" -> [d EXCEPT !.reservedStock = INITIAL_STOCK - available_stock]
    [] at = "i132" -> [d EXCEPT !.totalOrders = order_count]
    [] at = "i133" -> [d EXCEPT !.successfulOrders = successful_orders]
    [] at = "i134" -> [d EXCEPT !.failedOrders = failed_orders]

InventorySteps == {"i131", "i132", "i133", "i134"}

InventoryStep(r) ==
  /\ server = "enhanced"
  /\ pc[r] \in InventorySteps
  /\ rd' = [rd EXCEPT ![r] = InventoryRead(pc[r], rd[r])]
  /\ pc' = [pc EXCEPT ![r] = InventoryGoto(pc[r])]
  /\ UNCHANGED <<server, INITIAL_STOCK, ledger, tracker, stock_lock, metricsv,
                 arrived, method, path, order_id, status_code, response, sent,
                 raised>>

\* lines 127-135: the inventory dict
InventoryBody(d) ==
  [productId |-> "550e8400-e29b-41d4-a716-446655440001",
   initialStock |-> INITIAL_STOCK, availableStock |-> d.availableStock,
   reservedStock |-> d.reservedStock, totalOrders |-> d.totalOrders,
   successfulOrders |-> d.successfulOrders, failedOrders |-> d.failedOrders]

\* lines 137-140
InventorySend(r) ==
  /\ server = "enhanced"
  /\ pc[r] = "isend"
  /\ response' = [response EXCEPT ![r] = InventoryBody(rd[r])]
  /\ sent' = [sent EXCEPT ![r] = [code |-> 200, body |-> response'[r]]]
  /\ UNCHANGED raised
  /\ pc' = [pc EXCEPT ![r] = "done"]
  /\ UNCHANGED <<server, INITIAL_STOCK, ledger, tracker, stock_lock, metricsv,
                 arrived, method, path, order_id, status_code, rd>>

\* lines 141-143: any other GET path
GetNotFound(r) ==
  /\ server = "enhanced"
  /\ pc[r] = "new"
  /\ r = arrived + 1
  /\ Gets = {}
  /\ arrived' = arrived + 1
  /\ method' = [method EXCEPT ![r] = "GET"]
  /\ path' = [path EXCEPT ![r] = "/other"]
  /\ sent' = [sent EXCEPT ![r] = [code |-> 404, body |-> NoBody]]
  /\ UNCHANGED raised
  /\ pc' = [pc EXCEPT ![r] = "done"]
  /\ UNCHANGED <<server, INITIAL_STOCK, ledger, tracker, stock_lock, metricsv,
                 locals>>

\* ------------------------------------------------- mock_server.do_POST
\* line 22: if available_stock > 0
BasicHasStockAlways == TRUE
BasicHasStock == available_stock > 0

\* lines 14-22: the handler starts on /api/v1/orders, takes stock_lock,
\* counts the order, formats its id, tests the stock
BasicAcquire(r) ==
  /\ server = "basic"
  /\ pc[r] = "new"
  /\ r = arrived + 1
  /\ stock_lock = 0
  /\ arrived' = arrived + 1
  /\ method' = [method EXCEPT ![r] = "POST"]
  /\ path' = [path EXCEPT ![r] = "/api/v1/orders"]
  /\ stock_lock' = r
  /\ order_count' = order_count + 1
  /\ order_id' = [order_id EXCEPT ![r] = FormatOrderId(order_count')]
  /\ pc' = [pc EXCEPT ![r] = IF BasicHasStock THEN "decrement" ELSE "reject"]
  /\ UNCHANGED <<server, INITIAL_STOCK, available_stock, successful_orders,
                 failed_orders, tracker, metricsv, status_code, response, sent,
                 raised, rd>>

\* line 23: available_stock -= 1
BasicDecrement(r) ==
  /\ server = "basic"
  /\ pc[r] = "decrement"
  /\ available_stock' = available_stock - 1
  /\ pc' = [pc EXCEPT ![r] = "confirm"]
  /\ UNCHANGED <<server, INITIAL_STOCK, order_count, successful_orders,
                 failed_orders, tracker, stock_lock, metricsv, arrived, method,
                 path, locals, sent, raised>>

\* lines 24-31 and 39-41: count the success, build and send the 201
\* response inside the with block (the socket write may raise), release
BasicConfirm(r) ==
  /\ server = "basic"
  /\ pc[r] = "confirm"
  /\ successful_orders' = successful_orders + 1
  /\ response' = [response EXCEPT ![r] =
                    [orderId |-> order_id[r], status |-> "CONFIRMED",
                     message |-> "Order created successfully"]]
  /\ status_code' = [status_code EXCEPT ![r] = 201]
  /\ \/ /\ sent' = [sent EXCEPT ![r] = [code |-> 201, body |-> response'[r]]]
        /\ UNCHANGED raised
     \/ /\ raised' = [raised EXCEPT ![r] = TRUE]
        /\ UNCHANGED sent
  /\ stock_lock' = 0
  /\ pc' = [pc EXCEPT ![r] = "done"]
  /\ UNCHANGED <<server, INITIAL_STOCK, available_stock, order_count,
                 failed_orders, tracker, metricsv, arrived, method, path,
                 order_id, rd>>

\* lines 32-41: build and send the 409 response inside the with block
BasicReject(r) ==
  /\ server = "basic"
  /\ pc[r] = "reject"
  /\ response' = [response EXCEPT ![r] =
                    [error |-> "INSUFFICIENT_STOCK",
                     message |-> "Insufficient stock for the requested items"]]
  /\ status_code' = [status_code EXCEPT ![r] = 409]
  /\ \/ /\ sent' = [sent EXCEPT ![r] = [code |-> 409, body |-> response'[r]]]
        /\ UNCHANGED raised
     \/ /\ raised' = [raised EXCEPT ![r] = TRUE]
        /\ UNCHANGED sent
  /\ stock_lock' = 0
  /\ pc' = [pc EXCEPT ![r] = "done"]
  /\ UNCHANGED <<server, INITIAL_STOCK, ledger, tracker, metricsv, arrived,
                 method, path, order_id, rd>>

\* lines 42-44: any other POST path
BasicNotFound(r) ==
  /\ server = "basic"
  /\ pc[r] = "new"
  /\ r = arrived + 1
  /\ arrived' = arrived + 1
  /\ method' = [method EXCEPT ![r] = "POST"]
  /\ path' = [path EXCEPT ![r] = "/other"]
  /\ \/ /\ sent' = [sent EXCEPT ![r] = [code |-> 404, body |-> NoBody]]
        /\ UNCHANGED raised
     \/ /\ raised' = [raised EXCEPT ![r] = TRUE]
        /\ UNCHANGED sent
  /\ pc' = [pc EXCEPT ![r] = "done"]
  /\ UNCHANGED <<server, INITIAL_STOCK, ledger, tracker, stock_lock, metricsv,
                 locals>>

\* -------------------------------------------------- mock_server.do_GET
\* lines 49-55: the inventory dict, read under stock_lock
BasicInventoryBody ==
  [productId |-> "550e8400-e29b-41d4-a716-446655440001",
   availableStock |-> available_stock,
   reservedStock |-> INITIAL_STOCK - available_stock,
   totalOrders |-> order_count, successfulOrders |-> successful_orders]

\* lines 47-60: with stock_lock: build the dict; then send it
BasicInventory(r) ==
  /\ server = "basic"
  /\ pc[r] = "new"
  /\ r = arrived + 1
  /\ Gets = {}
  /\ stock_lock = 0
  /\ arrived' = arrived + 1
  /\ method' = [method EXCEPT ![r] = "GET"]
  /\ path' = [path EXCEPT ![r] = "/api/v1/inventory/products/x"]
  /\ response' = [response EXCEPT ![r] = BasicInventoryBody]
  /\ sent' = [sent EXCEPT ![r] = [code |-> 200, body |-> response'[r]]]
  /\ UNCHANGED raised
  /\ pc' = [pc EXCEPT ![r] = "done"]
  /\ UNCHANGED <<server, INITIAL_STOCK, ledger, tracker, stock_lock, metricsv,
                 order_id, status_code, rd>>

\* lines 61-63: any other GET path (/metrics included)
BasicGetNotFound(r) ==
  /\ server = "basic"
  /\ pc[r] = "new"
  /\ r = arrived + 1
  /\ Gets = {}
  /\ arrived' = arrived + 1
  /\ method' = [method EXCEPT ![r] = "GET"]
  /\ \E p \in {"/metrics", "/other"} : path' = [path EXCEPT ![r] = p]
  /\ sent' = [sent EXCEPT ![r] = [code |-> 404, body |-> NoBody]]
  /\ UNCHANGED raised
  /\ pc' = [pc EXCEPT ![r] = "done"]
  /\ UNCHANGED <<server, INITIAL_STOCK, ledger, tracker, stock_lock, metricsv,
                 locals>>

\* ---------------------------------------------------------- specification
Next ==
  \E r \in Reqs :
    \/ Enter(r)
    \/ Acquire(r)
    \/ Decrement(r)
    \/ Confirm(r)
    \/ Reject(r)
    \/ Record(r)
    \/ Finally(r)
    \/ MetricsStart(r)
    \/ MetricsStep(r)
    \/ MetricsSend(r)
    \/ InventoryStart(r)
    \/ InventoryStep(r)
    \/ InventorySend(r)
    \/ GetNotFound(r)
    \/ BasicAcquire(r)
    \/ BasicDecrement(r)
    \/ BasicConfirm(r)
    \/ BasicReject(r)
    \/ BasicNotFound(r)
    \/ BasicInventory(r)
    \/ BasicGetNotFound(r)

Spec == Init /\ [][Next]_vars

\* a step of the handler of request r after its start
Step(r) ==
  \/ Acquire(r) \/ Decrement(r) \/ Confirm(r) \/ Reject(r) \/ Record(r)
  \/ Finally(r)
  \/ MetricsStep(r) \/ MetricsSend(r) \/ InventoryStep(r) \/ InventorySend(r)
  \/ BasicDecrement(r) \/ BasicConfirm(r) \/ BasicReject(r)

\* every started handler is a thread the scheduler keeps running: a handler
\* that can take a step eventually takes one.  Requests need not arrive.
FairSpec == Spec /\ \A r \in Reqs : WF_vars(Step(r))

\* ------------------------------------------------------------ vocabulary
OrdersPath == "/api/v1/orders"
\* order requests whose handler has started
Orders == {r \in Reqs : method[r] = "POST" /\ path[r] = OrdersPath}
\* order attempts that were given an id (entered the critical section)
Attempts == {r \in Reqs : order_id[r] # NoId}
Confirmed == {r \in Reqs : status_code[r] = 201}
Rejected == {r \in Reqs : status_code[r] = 409}
\* handlers inside the order critical section
InCritical == {r \in Reqs : pc[r] \in {"decrement", "confirm", "reject"}}
IsMetrics(r) == method[r] = "GET" /\ path[r] = "/metrics" /\ sent[r].code = 200
IsInventory(r) ==
  method[r] = "GET" /\ path[r] = "/api/v1/inventory/products/x" /\ sent[r].code = 200

\* ---------------------------------------------------------------- claims
\* C1: no oversell.  available_stock is never negative, and once every order
\* request that arrived has completed, exactly min(N, S) of the N order
\* attempts were CONFIRMED and the other N - min(N, S) were REJECTED.
C1_NoOversell ==
  /\ available_stock >= 0
  /\ (\A r \in Orders : pc[r] = "done") =>
       /\ Cardinality(Confirmed) = Min(Cardinality(Orders), INITIAL_STOCK)
       /\ Cardinality(Rejected) =
            Cardinality(Orders) - Min(Cardinality(Orders), INITIAL_STOCK)

\* two orders against a stock of one have completed, on either server
C1_Witness ==
  /\ INITIAL_STOCK = 1
  /\ Cardinality(Orders) = 2
  /\ \A r \in Orders : pc[r] = "done"
  /\ Cardinality(Confirmed) = 1
  /\ Cardinality(Rejected) = 1

\* a state another handler can observe: the enhanced server's GET handlers
\* read the globals without stock_lock, the basic server's only under it
Observable == server = "enhanced" \/ stock_lock = 0

C3_CountsAddUp ==
  server = "enhanced" =>
    /\ order_count = Cardinality(Attempts)
    /\ successful_orders = Cardinality(Confirmed)
    /\ failed_orders = Cardinality(Rejected)
    /\ Confirmed \cap Rejected = {}
    /\ InCritical = {} => order_count = successful_orders + failed_orders

\* a confirmed and a rejected attempt have both left the critical section
C3_Witness ==
  /\ server = "enhanced"
  /\ InCritical = {}
  /\ successful_orders = 1
  /\ failed_orders = 1
  /\ order_count = 2

\* C4: every attempt, confirmed or rejected, has an order id; the ids are
\* pairwise distinct, carry the numbers 1..order_count without gaps, are the
\* zero-padded rendering of their number, and the attempt inside the critical
\* section carries order_count itself.
C4_OrderIdsSequential ==
  /\ Confirmed \cup Rejected \cup InCritical \subseteq Attempts
  /\ \A r, q \in Attempts : r # q => order_id[r] # order_id[q]
  /\ {OrderNumber(order_id[r]) : r \in Attempts} = 1..order_count
  /\ \A r \in Attempts :
       /\ order_id[r] = FormatOrderId(OrderNumber(order_id[r]))
       /\ Len(order_id[r].digits) = IdWidth
       /\ stock_lock = r => OrderNumber(order_id[r]) = order_count

\* a confirmed attempt carries ORDER-00001 and a rejected one ORDER-00002
C4_Witness ==
  \E r \in Confirmed, q \in Rejected :
    /\ order_id[r] = [prefix |-> "ORDER-", digits |-> <<0, 0, 0, 0, 1>>]
    /\ order_id[q] = [prefix |-> "ORDER-", digits |-> <<0, 0, 0, 0, 2>>]

\* the claim of C5 on one of the two servers
C5_On(sv) ==
  server = sv =>
    /\ \A r \in Reqs : pc[r] = "decrement" => available_stock > 0
    /\ \A r \in Reqs : pc[r] = "reject" => available_stock = 0
    /\ Cardinality(Confirmed \cup {r \in Reqs : pc[r] = "confirm"}) =
         INITIAL_STOCK - available_stock
    /\ successful_orders = Cardinality(Confirmed)
    /\ sv = "enhanced" => failed_orders = Cardinality(Rejected)
    /\ \A r \in Confirmed :
         /\ "orderId" \in DOMAIN response[r]
         /\ response[r].orderId = order_id[r]
         /\ response[r].status = "CONFIRMED"
         /\ "remainingStock" \in DOMAIN response[r]
    /\ \A r \in Rejected :
         /\ response[r].error = "INSUFFICIENT_STOCK"
         /\ "orderId" \in DOMAIN response[r]
         /\ response[r].orderId = order_id[r]
    /\ \A r \in Reqs :
         sent[r].code \in {201, 409} =>
           /\ sent[r].code = status_code[r]
           /\ sent[r].body = response[r]

\* C5: an attempt is CONFIRMED (201; orderId, status CONFIRMED,
\* remainingStock) exactly when available_stock > 0 at its stock test, and
\* REJECTED otherwise (409; error INSUFFICIENT_STOCK and its orderId); a
\* rejected attempt changes neither available_stock nor successful_orders.
C5_OutcomeAndBodies == C5_On("enhanced") /\ C5_On("basic")

\* C6: the remainingStock of a CONFIRMED response is available_stock as its
\* own decrement left it: INITIAL_STOCK minus the number of confirmed
\* attempts up to and including it in order-id order, so the values are
\* pairwise distinct and run INITIAL_STOCK-1, INITIAL_STOCK-2, ...
C6_RemainingStock ==
  server = "enhanced" =>
    /\ \A r \in Reqs :
         pc[r] = "confirm" =>
           available_stock = INITIAL_STOCK - (Cardinality(Confirmed) + 1)
    /\ \A r \in Confirmed :
         /\ "remainingStock" \in DOMAIN response[r]
         /\ response[r].remainingStock =
              INITIAL_STOCK -
                Cardinality({q \in Confirmed :
                               OrderNumber(order_id[q]) <= OrderNumber(order_id[r])})
         /\ sent[r].code = 201 => sent[r].body = response[r]
         /\ \A q \in Confirmed :
              q # r => response[q].remainingStock # response[r].remainingStock

\* two confirmed responses went out, with remainingStock 1 and then 0
C6_Witness ==
  \E r \in Confirmed, q \in Confirmed :
    /\ sent[r].code = 201
    /\ sent[q].code = 201
    /\ OrderNumber(order_id[r]) < OrderNumber(order_id[q])
    /\ "remainingStock" \in DOMAIN sent[r].body
    /\ sent[r].body.remainingStock = 1
    /\ sent[q].body.remainingStock = 0

\* C7: max_concurrent never decreases and is at least concurrent_requests
\* in every state.
C7_MaxTracksInFlight ==
  /\ [](max_concurrent >= concurrent_requests)
  /\ [][max_concurrent' >= max_concurrent]_vars

\* both requests were in flight together and have since left
C7_Witness ==
  /\ max_concurrent = 2
  /\ concurrent_requests = 0

\* POST handlers of the enhanced server between enter and exit
InFlight == {r \in Reqs : method[r] = "POST" /\ pc[r] \notin {"new", "done"}}

\* C8: concurrent_requests is the number of POST handlers between enter and
\* exit, whatever the exit path (201, 409, 404, an exception); it is never
\* negative and is 0 when no POST request is in progress.
C8_GuaranteedRelease ==
  server = "enhanced" =>
    /\ concurrent_requests = Cardinality(InFlight)
    /\ concurrent_requests >= 0
    /\ InFlight = {} => concurrent_requests = 0

\* a handler that ended by an exception and one that answered 404 have both
\* left, after having been in flight together
C8_Witness ==
  \E r \in Reqs, q \in Reqs :
    /\ server = "enhanced"
    /\ raised[r] /\ pc[r] = "done" /\ status_code[r] = 201
    /\ sent[q].code = 404 /\ method[q] = "POST" /\ pc[q] = "done"
    /\ max_concurrent = 2
    /\ concurrent_requests = 0

QuietSnapshot(g) ==
  /\ server = "enhanced"
  /\ method[g] = "GET" /\ sent[g].code = 200
  /\ rd[g].quiet
  /\ arrived = g

C12_EmptyMetrics ==
  \A g \in Reqs :
    server = "enhanced" /\ method[g] = "GET" /\ path[g] = "/metrics" =>
      /\ pc[g] \in {"m99sum", "m99len", "m115", "m116"} => Len(response_times) > 0
      /\ pc[g] \in {"m108s", "m108n"} => order_count > 0
      /\ rd[g].avg.den > 0
      /\ rd[g].successRate.den > 0
      /\ sent[g].code = 200 /\ order_count = 0 =>
           /\ QuotEq(sent[g].body.summary.successRate, Zero)
           /\ QuotEq(sent[g].body.responseTime.avg, Zero)
           /\ sent[g].body.responseTime.min = 0
           /\ sent[g].body.responseTime.max = 0
           /\ sent[g].body.responseTime.count = 0

\* a /metrics response sent before any order was placed, after another
\* request had been answered 404
C12_Witness ==
  \E g \in Reqs, q \in Reqs :
    /\ IsMetrics(g)
    /\ order_count = 0
    /\ sent[g].body.responseTime.count = 0
    /\ sent[q].code = 404

\* requests on a path the server does not know: anything but the order and
\* inventory paths, and on mock_server.py also /metrics
Unrecognized(r) ==
  \/ path[r] = "/other"
  \/ server = "basic" /\ method[r] = "GET" /\ path[r] = "/metrics"

ReadsStockOrTotal(g) ==
  \/ pc[g] \in {"m104", "m105", "m108if", "m108n", "i131", "i132"}
  \/ pc[g] = "new" /\ method'[g] = "GET" /\ path'[g] = "/api/v1/inventory/products/x"

\* the step of handler g belongs to an order handler's locked sections or to
\* the concurrency tracker
LockedStep(g) ==
  \/ pc[g] \in {"acquire", "decrement", "confirm", "reject", "finally"}
  \/ pc[g] = "new" /\ method'[g] = "POST"
       /\ (server = "enhanced" \/ path'[g] = OrdersPath)

SuccessNumber(r) == INITIAL_STOCK - response[r].remainingStock

\* the order of r was confirmed and due a progress line, and the console
\* has no line for it: the print of lines 67-71 raised
PrintFailed(r) ==
  /\ server = "enhanced"
  /\ status_code[r] = 201
  /\ ProgressDue(SuccessNumber(r))
  /\ \A i \in 1..Len(console) : console[i].success # SuccessNumber(r)

\* C16: a failure to emit the progress line neither blocks nor fails the
\* order request.  A handler whose progress print raised has, once it has
\* returned, sent its 201 CONFIRMED response, its response time is among
\* the samples (there is a sample for every attempt that has returned), and
\* it does not hold stock_lock.
C16_PrintFailureHarmless ==
  \A r \in Reqs :
    PrintFailed(r) /\ pc[r] = "done" =>
      /\ stock_lock # r
      /\ sent[r].code = 201
      /\ sent[r].body.status = "CONFIRMED"
      /\ Len(response_times) >= Cardinality({q \in Attempts : pc[q] = "done"})

\* C17 as claimed: after any run the number of progress lines is
\* floor(successful_orders / ProgressEvery).
C17_LinesEqualFloor ==
  server = "enhanced" => Len(console) = successful_orders \div ProgressEvery

\* C17, amended: the console holds one line for each successful order that
\* brought successful_orders to a multiple of ProgressEvery and whose print
\* did not raise, and no other line.  Every line reports a multiple, the
\* lines report increasing multiples, every multiple reached has its line
\* unless the handler that reached it ended by an exception without a
\* response, and when no confirming handler raised the number of lines is
\* floor(successful_orders / ProgressEvery).
C17_OneLinePerMultiple ==
  server = "enhanced" =>
    /\ \A i \in 1..Len(console) :
         /\ console[i].success % ProgressEvery = 0
         /\ console[i].success \in 1..successful_orders
         /\ \A j \in 1..Len(console) :
              i < j => console[i].success < console[j].success
    /\ \A m \in 1..successful_orders :
         m % ProgressEvery = 0 =>
           \/ \E i \in 1..Len(console) : console[i].success = m
           \/ \E r \in Confirmed :
                SuccessNumber(r) = m /\ raised[r] /\ sent[r].code = 0
    /\ (\A r \in Confirmed : ~raised[r]) =>
         Len(console) = successful_orders \div ProgressEvery

\* the order that made successful_orders a multiple of ProgressEvery has
\* printed its line, and no handler raised
C17_Witness ==
  /\ server = "enhanced"
  /\ successful_orders = ProgressEvery
  /\ Len(console) = 1
  /\ console[1].success = ProgressEvery
  /\ \A r \in Reqs : ~raised[r] /\ pc[r] = "done"

\* C18: depletion is permanent.  No step increases available_stock or
\* decreases order_count, successful_orders or failed_orders; an attempt
\* that enters its critical section while available_stock is 0 is rejected,
\* and a handler about to decrement finds stock; no confirmed order has a
\* larger id than a rejected one.
C18_DepletionPermanent ==
  /\ [][/\ available_stock' <= available_stock
        /\ order_count' >= order_count
        /\ successful_orders' >= successful_orders
        /\ failed_orders' >= failed_orders
        /\ \A r \in Reqs :
             available_stock = 0 /\ order_id[r] = NoId /\ order_id'[r] # NoId
               => pc'[r] = "reject"]_vars
  /\ [](\A r \in Reqs : pc[r] = "decrement" => available_stock > 0)
  /\ [](\A c \in Reqs, j \in Reqs :
          /\ status_code[c] = 201 \/ pc[c] \in {"decrement", "confirm"}
          /\ status_code[j] = 409 \/ pc[j] = "reject"
          => OrderNumber(order_id[c]) < OrderNumber(order_id[j]))

\* on mock_server.py the stock of one is gone: order 1 was confirmed and
\* order 2, placed afterwards, rejected
C18_Witness ==
  \E c \in Reqs, j \in Reqs :
    /\ server = "basic"
    /\ INITIAL_STOCK = 1 /\ available_stock = 0
    /\ status_code[c] = 201 /\ OrderNumber(order_id[c]) = 1
    /\ status_code[j] = 409 /\ OrderNumber(order_id[j]) = 2

C20_OneSamplePerAttempt ==
  server = "enhanced" =>
    /\ Len(order_timestamps) = successful_orders
    /\ Len(response_times) <= order_count
    /\ Len(response_times) <= Cardinality(Attempts)
    /\ OrdersInProgress = {} => Len(response_times) = order_count
====
